---- MODULE Spec2Model ----
(***************************************************************************)
(* A model of port-sync (src/main.go): a polling bridge that copies the    *)
(* forwarded port published in a file into qBittorrent's listening-port    *)
(* preference through its HTTP API.                                        *)
(*                                                                         *)
(* Text (file contents, HTTP bodies, error messages, environment values)   *)
(* is a sequence of one-character strings, so that trimming, parsing,      *)
(* formatting and substring search are computed the way the code computes  *)
(* them.  A character that TLA+ cannot write directly is a named token     *)
(* ("VT", "NBSP").                                                          *)
(***************************************************************************)
EXTENDS Integers, Sequences, FiniteSets, TLC

----------------------------------------------------------------------------
(* Bounds of the model *)

\* How many distinct valid forwarded ports the external writer may publish.
NumPorts == 2

----------------------------------------------------------------------------
(* Program constants *)

StatusOK == 200
StatusForbidden == 403
MinPort == 1
MaxPort == 65535
DefaultCheckInterval == 30

----------------------------------------------------------------------------
(* Text literals of the program *)

\* "authentication expired"
AuthExpiredText == <<"a","u","t","h","e","n","t","i","c","a","t","i","o","n"," ","e","x","p","i","r","e","d">>
\* "failed to get preferences: "
GetFailPrefix == <<"f","a","i","l","e","d"," ","t","o"," ","g","e","t"," ","p","r","e","f","e","r","e","n","c","e","s",":"," ">>
\* "failed to set preferences: "
SetFailPrefix == <<"f","a","i","l","e","d"," ","t","o"," ","s","e","t"," ","p","r","e","f","e","r","e","n","c","e","s",":"," ">>
\* "unexpected status code: "
StatusPrefix == <<"u","n","e","x","p","e","c","t","e","d"," ","s","t","a","t","u","s"," ","c","o","d","e",":"," ">>
\* ", body: "
BodyInfix == <<","," ","b","o","d","y",":"," ">>
\* "failed to decode preferences: "
DecodePrefix == <<"f","a","i","l","e","d"," ","t","o"," ","d","e","c","o","d","e"," ","p","r","e","f","e","r","e","n","c","e","s",":"," ">>
\* "listen_port not found in preferences"
NoListenPortText == <<"l","i","s","t","e","n","_","p","o","r","t"," ","n","o","t"," ","f","o","u","n","d"," ","i","n"," ","p","r","e","f","e","r","e","n","c","e","s">>
\* "login request failed: "
LoginReqPrefix == <<"l","o","g","i","n"," ","r","e","q","u","e","s","t"," ","f","a","i","l","e","d",":"," ">>
\* "login failed: status="
LoginFailPrefix == <<"l","o","g","i","n"," ","f","a","i","l","e","d",":"," ","s","t","a","t","u","s","=">>
\* ", body="
LoginBodyInfix == <<","," ","b","o","d","y","=">>
\* "Ok."
OkText == <<"O","k",".">>
\* "failed to read port file: "
ReadFailPrefix == <<"f","a","i","l","e","d"," ","t","o"," ","r","e","a","d"," ","p","o","r","t"," ","f","i","l","e",":"," ">>
\* "invalid port number: "
InvalidPortPrefix == <<"i","n","v","a","l","i","d"," ","p","o","r","t"," ","n","u","m","b","e","r",":"," ">>
\* "port number out of range: "
RangePrefix == <<"p","o","r","t"," ","n","u","m","b","e","r"," ","o","u","t"," ","o","f"," ","r","a","n","g","e",":"," ">>

(* Texts produced by the operating system, the HTTP transport and the     *)
(* remote service.                                                         *)
\* "no such file or directory"
ENOENT == <<"n","o"," ","s","u","c","h"," ","f","i","l","e"," ","o","r"," ","d","i","r","e","c","t","o","r","y">>
\* "permission denied"
EACCES == <<"p","e","r","m","i","s","s","i","o","n"," ","d","e","n","i","e","d">>
\* "context deadline exceeded" (the 10 s client timeout)
TimeoutText == <<"c","o","n","t","e","x","t"," ","d","e","a","d","l","i","n","e"," ","e","x","c","e","e","d","e","d">>
\* "connection refused"
RefusedText == <<"c","o","n","n","e","c","t","i","o","n"," ","r","e","f","u","s","e","d">>
\* "invalid character '<' looking for beginning of value"
JsonSyntaxText == <<"i","n","v","a","l","i","d"," ","c","h","a","r","a","c","t","e","r"," ","'","<","'"," ","l","o","o","k","i","n","g"," ","f","o","r"," ","b","e","g","i","n","n","i","n","g"," ","o","f"," ","v","a","l","u","e">>
\* "Forbidden"
ForbiddenText == <<"F","o","r","b","i","d","d","e","n">>
\* "Fails."
FailsText == <<"F","a","i","l","s",".">>

----------------------------------------------------------------------------
(* Text functions of the Go standard library, as the program uses them *)

\* unicode.IsSpace, on the characters the model draws from.
IsSpace(c) == c \in {" ", "\t", "\n", "\r", "\f", "VT", "NBSP"}

RECURSIVE TrimLeft(_)
TrimLeft(s) ==
    IF s # <<>> /\ IsSpace(Head(s)) THEN TrimLeft(Tail(s)) ELSE s

\* The first k characters of s, without the white space at their end.
RECURSIVE TrimRightTo(_, _)
TrimRightTo(s, k) ==
    IF k > 0 /\ IsSpace(s[k]) THEN TrimRightTo(s, k - 1) ELSE SubSeq(s, 1, k)

TrimRight(s) == TrimRightTo(s, Len(s))

\* strings.TrimSpace
TrimSpace(s) == TrimRight(TrimLeft(s))

\* strings.Contains with a non-empty substring
Contains(s, sub) ==
    \E i \in 1..(Len(s) - Len(sub) + 1) : SubSeq(s, i, i + Len(sub) - 1) = sub

DigitChars == <<"0","1","2","3","4","5","6","7","8","9">>

IsDigit(c) == \E i \in 1..10 : DigitChars[i] = c

DigitVal(c) == (CHOOSE i \in 1..10 : DigitChars[i] = c) - 1

\* The decimal value of the first k digits of ds.
RECURSIVE DigitsValueTo(_, _)
DigitsValueTo(ds, k) ==
    IF k = 0 THEN 0
    ELSE 10 * DigitsValueTo(ds, k - 1) + DigitVal(ds[k])

DigitsValue(ds) == DigitsValueTo(ds, Len(ds))

(* strconv.Atoi: an optional sign, then one or more decimal digits and     *)
(* nothing else.  The texts of the model have fewer than 10 digits, so     *)
(* the value is exact and the 64-bit range error cannot occur.             *)
Atoi(s) ==
    LET signed == s # <<>> /\ Head(s) \in {"+", "-"}
        ds     == IF signed THEN Tail(s) ELSE s
    IN  IF ds = <<>> \/ \E i \in 1..Len(ds) : ~IsDigit(ds[i])
        THEN [ok |-> FALSE, n |-> 0]
        ELSE [ok |-> TRUE,
              n  |-> IF signed /\ Head(s) = "-" THEN 0 - DigitsValue(ds)
                     ELSE DigitsValue(ds)]

RECURSIVE ItoaNat(_)
ItoaNat(n) ==
    IF n < 10 THEN <<DigitChars[n + 1]>>
    ELSE ItoaNat(n \div 10) \o <<DigitChars[(n % 10) + 1]>>

\* The %d verb of fmt
Itoa(n) == IF n < 0 THEN <<"-">> \o ItoaNat(0 - n) ELSE ItoaNat(n)

----------------------------------------------------------------------------
(* Errors: Go's error value, nil or a message *)

Nil == [isErr |-> FALSE, msg |-> <<>>]

Errorf(m) == [isErr |-> TRUE, msg |-> m]

\* "QBITTORRENT_PASSWORD environment variable is required"
PasswordRequiredText == <<"Q","B","I","T","T","O","R","R","E","N","T","_","P","A","S","S","W","O","R","D"," ","e","n","v","i","r","o","n","m","e","n","t"," ","v","a","r","i","a","b","l","e"," ","i","s"," ","r","e","q","u","i","r","e","d">>

----------------------------------------------------------------------------
(* Configuration *)

(* The environment, as os.Getenv sees it: an unset variable reads as the   *)
(* empty text.  The service address, the username and the path of the port *)
(* file have defaults and steer no decision of the program; the password   *)
(* and the poll interval do.                                               *)
SecretText == <<"s","3","c","r","3","t">>

PasswordValues == {<<>>, SecretText}

CheckIntervalValues == {<<>>, <<"5">>, <<"0">>, <<"-","5">>}

Environments ==
    [QBITTORRENT_PASSWORD : PasswordValues, CHECK_INTERVAL : CheckIntervalValues]

\* getEnvInt: the value when it parses as an integer, the default otherwise.
getEnvInt(value, defaultValue) ==
    IF value # <<>> /\ Atoi(value).ok THEN Atoi(value).n ELSE defaultValue

NoConfig == [Password |-> <<>>, CheckInterval |-> 0]

(* loadConfig.  CheckInterval is kept in seconds: time.Duration(n) *       *)
(* time.Second has the sign of n for every n of fewer than 10 digits.      *)
loadConfigNoPasswordCheck(e) ==
    [config |-> [Password      |-> e.QBITTORRENT_PASSWORD,
                 CheckInterval |-> getEnvInt(e.CHECK_INTERVAL, DefaultCheckInterval)],
     err    |-> Nil]

loadConfig(e) ==
    IF e.QBITTORRENT_PASSWORD = <<>>
    THEN [config |-> NoConfig, err |-> Errorf(PasswordRequiredText)]
    ELSE [config |-> [Password      |-> e.QBITTORRENT_PASSWORD,
                      CheckInterval |-> getEnvInt(e.CHECK_INTERVAL, DefaultCheckInterval)],
          err    |-> Nil]

----------------------------------------------------------------------------
(* The port file *)

NoFile == [exists |-> FALSE, readable |-> FALSE, data |-> <<>>]

\* A path that os.Stat finds but os.ReadFile cannot read (a directory, a
\* file without read permission).
UnreadableFile == [exists |-> TRUE, readable |-> FALSE, data |-> <<>>]

FileWith(text) == [exists |-> TRUE, readable |-> TRUE, data |-> text]

\* The valid forwarded ports of the model, the first NumPorts of these.
PortAt(i) ==
    CASE i = 1 -> 30100
      [] i = 2 -> 30200
      [] i = 3 -> MaxPort
      [] i = 4 -> MinPort
      [] OTHER -> 40000 + i

Ports == {PortAt(i) : i \in 1..NumPorts}

\* Contents that are no port: non-numeric, zero, above the range.
MalformedTexts == {<<"a","b","c">>, <<"0">>, Itoa(MaxPort + 1)}

\* Contents that hold a port: bare, and followed by a newline.
ValidTexts == {Itoa(p) : p \in Ports} \cup {Itoa(PortAt(1)) \o <<"\n">>}

FileStates ==
    {NoFile, UnreadableFile} \cup {FileWith(t) : t \in ValidTexts \cup MalformedTexts}

\* os.ReadFile's error text (the path is left out of the message).
ReadFileError(f) == IF f.exists THEN EACCES ELSE ENOENT

readPortFileNoRangeCheck(f) ==
    IF ~(f.exists /\ f.readable)
    THEN [port |-> 0, err |-> Errorf(ReadFailPrefix \o ReadFileError(f))]
    ELSE LET portStr == TrimSpace(f.data)
             a       == Atoi(portStr)
         IN  IF ~a.ok THEN [port |-> 0, err |-> Errorf(InvalidPortPrefix \o portStr)]
             ELSE [port |-> a.n, err |-> Nil]

readPortFile(f) ==
    IF ~(f.exists /\ f.readable)
    THEN [port |-> 0, err |-> Errorf(ReadFailPrefix \o ReadFileError(f))]
    ELSE LET portStr == TrimSpace(f.data)
             a       == Atoi(portStr)
         IN  IF ~a.ok THEN [port |-> 0, err |-> Errorf(InvalidPortPrefix \o portStr)]
             ELSE IF a.n < MinPort \/ a.n > MaxPort
                  THEN [port |-> 0, err |-> Errorf(RangePrefix \o Itoa(a.n))]
                  ELSE [port |-> a.n, err |-> Nil]

(* readPortFile's result for each state of the port file: the function is *)
(* deterministic in the file's state, so a cycle's read looks it up.       *)
ReadPortFileOf == [f \in FileStates |-> readPortFile(f)]

\* os.Stat(path) returned no error
Stat(f) == f.exists

----------------------------------------------------------------------------
(* The remote service's answers *)

(* An HTTP exchange ends in a transport error (neterr, with the            *)
(* transport's text: a refused connection, the 10 s client timeout) or in  *)
(* a response with a status and a body.                                    *)
TransportErrors == {TimeoutText, RefusedText}

TextResponse(status, body) ==
    [neterr |-> FALSE, errText |-> <<>>, status |-> status, body |-> body]

TextFailure(text) ==
    [neterr |-> TRUE, errText |-> text, status |-> 0, body |-> <<>>]

\* HTTP 401, a status the program has no case for.
StatusUnauthorized == 401

\* Statuses that are neither success nor the expired-session signal.
OtherStatuses == {StatusUnauthorized, 500}

(* The login endpoint: 200 "Ok." (with or without a trailing newline)      *)
(* when the credentials are accepted, 200 "Fails." when they are not, 403  *)
(* when the client is banned.                                              *)
LoginAccepted == {TextResponse(StatusOK, OkText), TextResponse(StatusOK, OkText \o <<"\n">>)}

LoginRejected ==
    {TextResponse(StatusOK, FailsText), TextResponse(StatusForbidden, ForbiddenText)}

LoginResponses ==
    LoginAccepted \cup LoginRejected \cup {TextFailure(t) : t \in TransportErrors}

(* The preferences endpoint answers with a JSON document.  The model keeps *)
(* of it whether it decodes into an object and what listen_port holds: no  *)
(* such key, a text, or a number given by its integer part and whether it  *)
(* has a fractional part.                                                  *)
JAbsent == [t |-> "absent", whole |-> 0, frac |-> FALSE]

JString == [t |-> "string", whole |-> 0, frac |-> FALSE]

JNumber(whole, frac) == [t |-> "number", whole |-> whole, frac |-> frac]

PrefsResponse(status, decodes, value) ==
    [neterr |-> FALSE, errText |-> <<>>, status |-> status,
     decodes |-> decodes, listen_port |-> value]

PrefsFailure(text) ==
    [neterr |-> TRUE, errText |-> text, status |-> 0,
     decodes |-> FALSE, listen_port |-> JAbsent]

(* What the preferences endpoint may answer when the session is valid or   *)
(* not and the service listens on port rport.                              *)
PrefsResponses(valid, rport) ==
    {PrefsFailure(t) : t \in TransportErrors}
    \cup {PrefsResponse(s, FALSE, JAbsent) : s \in OtherStatuses}
    \cup (IF valid
          THEN {PrefsResponse(StatusOK, TRUE, JNumber(rport, FALSE)),
                PrefsResponse(StatusOK, TRUE, JNumber(rport, TRUE)),
                PrefsResponse(StatusOK, TRUE, JAbsent),
                PrefsResponse(StatusOK, TRUE, JString),
                PrefsResponse(StatusOK, FALSE, JAbsent)}
          ELSE {PrefsResponse(StatusForbidden, FALSE, JAbsent)})

(* What the setPreferences endpoint may answer.  A failure status carries  *)
(* a body chosen by whoever answered (the service, a proxy before it).     *)
FailureBodies == {<<>>, ForbiddenText, AuthExpiredText}

SetResponses(valid) ==
    {TextFailure(t) : t \in TransportErrors}
    \cup {TextResponse(s, b) : s \in OtherStatuses, b \in FailureBodies}
    \cup (IF valid THEN {TextResponse(StatusOK, <<>>)}
          ELSE {TextResponse(StatusForbidden, ForbiddenText)})

----------------------------------------------------------------------------
(* The session client: what each method returns for an answer *)

\* Login: nil iff the status is 200 and the trimmed body is "Ok.".
LoginIgnoringBody(resp) ==
    IF resp.neterr THEN Errorf(LoginReqPrefix \o resp.errText)
    ELSE IF resp.status # StatusOK
         THEN Errorf(LoginFailPrefix \o Itoa(resp.status) \o LoginBodyInfix
                     \o TrimSpace(resp.body))
         ELSE Nil

Login(resp) ==
    IF resp.neterr THEN Errorf(LoginReqPrefix \o resp.errText)
    ELSE LET bodyStr == TrimSpace(resp.body)
         IN  IF resp.status # StatusOK \/ bodyStr # OkText
             THEN Errorf(LoginFailPrefix \o Itoa(resp.status) \o LoginBodyInfix
                         \o bodyStr)
             ELSE Nil

\* int(port) of a float64: the fractional part is dropped.
IntOfFloat(v) == v.whole

GetListeningPortAlso401(resp) ==
    IF resp.neterr
    THEN [port |-> 0, err |-> Errorf(GetFailPrefix \o resp.errText)]
    ELSE IF resp.status \in {StatusForbidden, StatusUnauthorized}
    THEN [port |-> 0, err |-> Errorf(AuthExpiredText)]
    ELSE IF resp.status # StatusOK
    THEN [port |-> 0, err |-> Errorf(StatusPrefix \o Itoa(resp.status))]
    ELSE IF ~resp.decodes
    THEN [port |-> 0, err |-> Errorf(DecodePrefix \o JsonSyntaxText)]
    ELSE IF resp.listen_port.t # "number"
    THEN [port |-> 0, err |-> Errorf(NoListenPortText)]
    ELSE [port |-> IntOfFloat(resp.listen_port), err |-> Nil]

GetListeningPort(resp) ==
    IF resp.neterr
    THEN [port |-> 0, err |-> Errorf(GetFailPrefix \o resp.errText)]
    ELSE IF resp.status = StatusForbidden
    THEN [port |-> 0, err |-> Errorf(AuthExpiredText)]
    ELSE IF resp.status # StatusOK
    THEN [port |-> 0, err |-> Errorf(StatusPrefix \o Itoa(resp.status))]
    ELSE IF ~resp.decodes
    THEN [port |-> 0, err |-> Errorf(DecodePrefix \o JsonSyntaxText)]
    ELSE IF resp.listen_port.t # "number"
    THEN [port |-> 0, err |-> Errorf(NoListenPortText)]
    ELSE [port |-> IntOfFloat(resp.listen_port), err |-> Nil]

SetListeningPort(resp) ==
    IF resp.neterr THEN Errorf(SetFailPrefix \o resp.errText)
    ELSE IF resp.status = StatusForbidden THEN Errorf(AuthExpiredText)
    ELSE IF resp.status # StatusOK
    THEN Errorf(StatusPrefix \o Itoa(resp.status) \o BodyInfix \o resp.body)
    ELSE Nil

----------------------------------------------------------------------------
(* The state *)

VARIABLES
    pc,            \* where main is
    exitCode,      \* the process's exit status once pc = "exited"
    env,           \* the environment the process was started in
    config,        \* *Config, once loaded
    file,          \* the port file, written by the VPN sidecar
    remotePort,    \* the port the remote service listens on
    sessionValid,  \* whether the service honours the cookie in the client's jar
    lastPort,      \* main's lastPort, handed to syncPort by reference
    filePort,      \* syncPort's filePort
    currentPort,   \* syncPort's currentPort
    startLast,     \* history: *lastPort when the current cycle began
    calls,         \* history: the HTTP calls of the current cycle, in order
    outcome,       \* history: how the current cycle ended
    hist,          \* history: what has happened since the process started
    probe          \* a single function's input and result (function-level runs)

progVars == <<pc, exitCode, env, config, file, remotePort, sessionValid, lastPort,
              filePort, currentPort, startLast, calls, outcome, hist>>

vars == <<progVars, probe>>

\* The program runs: no function is called on its own.
NoProbe == [fn |-> "none", in |-> <<>>, want |-> <<>>, out |-> <<>>, done |-> FALSE]

cycleVars == <<filePort, currentPort, startLast, calls, outcome>>

envVars == <<file, remotePort, sessionValid>>

\* The ports the remote service may listen on: qBittorrent's default, or
\* one of the forwarded ports.
RemotePorts == Ports \cup {6881}

\* One HTTP call of a cycle: the method, the port it carried, the status of
\* the answer (0: no answer), whether the method returned nil, and the port
\* it returned.
Called(op, arg, resp, err, ret) ==
    [op |-> op, arg |-> arg, status |-> resp.status, ok |-> ~err.isErr, ret |-> ret]

Init ==
    /\ pc = "loadConfig"
    /\ exitCode = 0
    /\ env \in Environments
    /\ config = NoConfig
    /\ file \in FileStates
    /\ remotePort \in RemotePorts
    /\ sessionValid = FALSE
    /\ lastPort = 0
    /\ filePort = 0
    /\ currentPort = 0
    /\ startLast = 0
    /\ calls = <<>>
    /\ outcome = "none"
    /\ hist = [initialLogin |-> "none", gatePassed |-> FALSE, cycleRan |-> FALSE,
               http |-> FALSE]
    /\ probe = NoProbe

----------------------------------------------------------------------------
(* Startup: main, up to the sync loop *)

\* log.Fatalf: the process exits with status 1.
Fatal == pc' = "exited" /\ exitCode' = 1

\* An uncaught panic: the process exits with status 2.
Panic == pc' = "exited" /\ exitCode' = 2

LoadConfig ==
    /\ pc = "loadConfig"
    /\ LET r == loadConfig(env)
       IN  IF r.err.isErr
           THEN Fatal /\ UNCHANGED config
           ELSE pc' = "newClient" /\ config' = r.config /\ UNCHANGED exitCode
    /\ UNCHANGED <<env, probe, envVars, lastPort, cycleVars, hist>>

\* NewQBittorrentClient: cookiejar.New may report an error.
NewClient ==
    /\ pc = "newClient"
    /\ \E jarErr \in BOOLEAN :
          IF jarErr THEN Fatal ELSE pc' = "login" /\ UNCHANGED exitCode
    /\ UNCHANGED <<env, probe, config, envVars, lastPort, cycleVars, hist>>

\* The service's side of a login: an accepted login makes the cookie valid.
SessionAfterLogin(resp) == IF resp \in LoginAccepted THEN TRUE ELSE sessionValid

InitialLogin ==
    /\ pc = "login"
    /\ \E resp \in LoginResponses :
          /\ sessionValid' = SessionAfterLogin(resp)
          /\ IF Login(resp).isErr
             THEN Fatal /\ hist' = [hist EXCEPT !.initialLogin = "failed", !.http = TRUE]
             ELSE /\ pc' = "waitFile"
                  /\ hist' = [hist EXCEPT !.initialLogin = "ok", !.http = TRUE]
                  /\ UNCHANGED exitCode
    /\ UNCHANGED <<env, probe, config, file, remotePort, lastPort, cycleVars>>

\* The startup gate: one os.Stat; on failure sleep 5 s and poll again.
WaitForPortFile ==
    /\ pc = "waitFile"
    /\ IF Stat(file)
       THEN pc' = "newTicker" /\ hist' = [hist EXCEPT !.gatePassed = TRUE]
       ELSE UNCHANGED <<pc, hist>>
    /\ UNCHANGED <<exitCode, env, probe, config, envVars, lastPort, cycleVars>>

\* time.NewTicker panics on a non-positive interval; otherwise the first
\* syncPort is called at once.
NewTicker ==
    /\ pc = "newTicker"
    /\ IF config.CheckInterval > 0
       THEN pc' = "syncPort" /\ UNCHANGED exitCode
       ELSE Panic
    /\ UNCHANGED <<env, probe, config, envVars, lastPort, cycleVars, hist>>

\* for range ticker.C: a tick, received while no cycle is running.
Tick ==
    /\ pc = "waitTick"
    /\ pc' = "syncPort"
    /\ UNCHANGED <<exitCode, env, probe, config, envVars, lastPort, cycleVars, hist>>

----------------------------------------------------------------------------
(* syncPort: one cycle, a step per blocking call *)

\* filePort == *lastPort
PortUnchangedNever(fp, lp) == fp = 0

PortUnchanged(fp, lp) == fp = lp

\* currentPort != filePort
NeedsUpdateAlways(cur, fp) == TRUE

NeedsUpdate(cur, fp) == cur # fp

\* strings.Contains(err.Error(), "authentication expired")
IsAuthExpired(err) == Contains(err.msg, AuthExpiredText)

\* A return before the last line: the cycle is over, *lastPort is as it was.
AbortExiting == pc' = "exited" /\ outcome' = "aborted" /\ lastPort' = lastPort

AbortStoringPort == pc' = "waitTick" /\ outcome' = "aborted" /\ lastPort' = filePort

Abort == pc' = "waitTick" /\ outcome' = "aborted" /\ lastPort' = lastPort

\* The return of an unchanged port.
Unchanged == pc' = "waitTick" /\ outcome' = "unchanged" /\ lastPort' = lastPort

FinishKeepingLastPort(how) == pc' = "waitTick" /\ outcome' = how /\ lastPort' = lastPort

\* *lastPort = filePort, the last line of syncPort.
Finish(how) == pc' = "waitTick" /\ outcome' = how /\ lastPort' = filePort

\* The cycle goes on to its next call.
Continue(next) == pc' = next /\ outcome' = "running" /\ lastPort' = lastPort

SyncPortRead ==
    /\ pc = "syncPort"
    /\ LET r == ReadPortFileOf[file]
       IN  /\ filePort' = r.port
           /\ IF r.err.isErr THEN Abort
              ELSE IF PortUnchanged(r.port, lastPort) THEN Unchanged
              ELSE Continue("getPort")
    /\ startLast' = lastPort
    /\ calls' = <<>>
    /\ currentPort' = 0
    /\ hist' = [hist EXCEPT !.cycleRan = TRUE]
    /\ UNCHANGED <<exitCode, env, probe, config, envVars>>

\* With the remote's port in hand: update if different, else done.
AfterGetPort ==
    IF NeedsUpdate(currentPort', filePort) THEN Continue("setPort")
    ELSE Finish("alreadySet")

\* The first GetListeningPort failed.
OnGetErrorNoReauth(err) == Abort

OnGetError(err) ==
    IF IsAuthExpired(err) THEN Continue("loginGet") ELSE Abort

\* The retried GetListeningPort failed.
OnRetryGetErrorLoginAgain(err) ==
    IF IsAuthExpired(err) /\ Len(calls) < 6 THEN Continue("loginGet") ELSE Abort

OnRetryGetError(err) == Abort

\* The first SetListeningPort failed.
OnSetErrorNoReauth(err) == Abort

OnSetError(err) ==
    IF IsAuthExpired(err) THEN Continue("loginSet") ELSE Abort

\* The retried SetListeningPort failed.
OnRetrySetErrorSetAgain(err) ==
    IF Len(calls) < 6 THEN Continue("retrySet") ELSE Abort

OnRetrySetError(err) == Abort

\* The port both SetListeningPort calls carry.
SetArgRemotePort == currentPort

SetArg == filePort

SyncPortGet ==
    /\ pc = "getPort"
    /\ \E resp \in PrefsResponses(sessionValid, remotePort) :
          LET r == GetListeningPort(resp)
          IN  /\ calls' = Append(calls, Called("GetPort", 0, resp, r.err, r.port))
              /\ currentPort' = r.port
              /\ IF r.err.isErr THEN OnGetError(r.err) ELSE AfterGetPort
    /\ hist' = [hist EXCEPT !.http = TRUE]
    /\ UNCHANGED <<exitCode, env, probe, config, envVars, filePort, startLast>>

\* client.Login() of a cycle, at either call site.
Reauth(retry) ==
    \E resp \in LoginResponses :
       LET err == Login(resp)
       IN  /\ calls' = Append(calls, Called("Login", 0, resp, err, 0))
           /\ sessionValid' = SessionAfterLogin(resp)
           /\ IF err.isErr THEN Abort ELSE Continue(retry)

SyncPortLoginGet ==
    /\ pc = "loginGet"
    /\ Reauth("retryGet")
    /\ hist' = [hist EXCEPT !.http = TRUE]
    /\ UNCHANGED <<exitCode, env, probe, config, file, remotePort, filePort, currentPort,
                   startLast>>

SyncPortRetryGet ==
    /\ pc = "retryGet"
    /\ \E resp \in PrefsResponses(sessionValid, remotePort) :
          LET r == GetListeningPort(resp)
          IN  /\ calls' = Append(calls, Called("GetPort", 0, resp, r.err, r.port))
              /\ currentPort' = r.port
              /\ IF r.err.isErr THEN OnRetryGetError(r.err) ELSE AfterGetPort
    /\ hist' = [hist EXCEPT !.http = TRUE]
    /\ UNCHANGED <<exitCode, env, probe, config, envVars, filePort, startLast>>

(* The service's side of setPreferences: a 200 answer means the port was   *)
(* applied; when the answer is lost in transport the request may or may    *)
(* not have been applied.                                                  *)
RemoteAfterSet(resp, port) ==
    IF resp.neterr THEN (IF sessionValid THEN {remotePort, port} ELSE {remotePort})
    ELSE IF resp.status = StatusOK THEN {port}
    ELSE {remotePort}

SyncPortSet ==
    /\ pc = "setPort"
    /\ \E resp \in SetResponses(sessionValid) :
          LET err == SetListeningPort(resp)
          IN  /\ calls' = Append(calls, Called("SetPort", SetArg, resp, err, 0))
              /\ remotePort' \in RemoteAfterSet(resp, SetArg)
              /\ IF err.isErr THEN OnSetError(err) ELSE Finish("updated")
    /\ hist' = [hist EXCEPT !.http = TRUE]
    /\ UNCHANGED <<exitCode, env, probe, config, file, sessionValid, filePort, currentPort,
                   startLast>>

SyncPortLoginSet ==
    /\ pc = "loginSet"
    /\ Reauth("retrySet")
    /\ hist' = [hist EXCEPT !.http = TRUE]
    /\ UNCHANGED <<exitCode, env, probe, config, file, remotePort, filePort, currentPort,
                   startLast>>

SyncPortRetrySet ==
    /\ pc = "retrySet"
    /\ \E resp \in SetResponses(sessionValid) :
          LET err == SetListeningPort(resp)
          IN  /\ calls' = Append(calls, Called("SetPort", SetArg, resp, err, 0))
              /\ remotePort' \in RemoteAfterSet(resp, SetArg)
              /\ IF err.isErr THEN OnRetrySetError(err) ELSE Finish("updated")
    /\ hist' = [hist EXCEPT !.http = TRUE]
    /\ UNCHANGED <<exitCode, env, probe, config, file, sessionValid, filePort, currentPort,
                   startLast>>

----------------------------------------------------------------------------
(* The world outside the process *)

Running == pc # "exited"

\* The VPN sidecar (or anyone) writes, replaces or removes the port file.
WriteFile ==
    /\ Running
    /\ file' \in FileStates \ {file}
    /\ UNCHANGED <<pc, exitCode, env, probe, config, remotePort, sessionValid, lastPort,
                   cycleVars, hist>>

\* The service's port is changed behind the program's back.
RemoteChange ==
    /\ Running
    /\ remotePort' \in RemotePorts \ {remotePort}
    /\ UNCHANGED <<pc, exitCode, env, probe, config, file, sessionValid, lastPort,
                   cycleVars, hist>>

\* The service invalidates the session.
ExpireSession ==
    /\ Running
    /\ sessionValid
    /\ sessionValid' = FALSE
    /\ UNCHANGED <<pc, exitCode, env, probe, config, file, remotePort, lastPort,
                   cycleVars, hist>>

----------------------------------------------------------------------------
(* The specification *)

Next ==
    \/ LoadConfig
    \/ NewClient
    \/ InitialLogin
    \/ WaitForPortFile
    \/ NewTicker
    \/ Tick
    \/ SyncPortRead
    \/ SyncPortGet
    \/ SyncPortLoginGet
    \/ SyncPortRetryGet
    \/ SyncPortSet
    \/ SyncPortLoginSet
    \/ SyncPortRetrySet
    \/ WriteFile
    \/ RemoteChange
    \/ ExpireSession

Spec == Init /\ [][Next]_vars

\* The steps of the process itself, as opposed to those of the world.
ProcNext ==
    \/ LoadConfig
    \/ NewClient
    \/ InitialLogin
    \/ WaitForPortFile
    \/ NewTicker
    \/ Tick
    \/ SyncPortRead
    \/ SyncPortGet
    \/ SyncPortLoginGet
    \/ SyncPortRetryGet
    \/ SyncPortSet
    \/ SyncPortLoginSet
    \/ SyncPortRetrySet

(* The process keeps running: every blocking call returns (the HTTP client *)
(* has a 10 s timeout, the gate polls every 5 s) and the ticker keeps      *)
(* firing.                                                                 *)
FairSpec == Init /\ [][Next]_vars /\ WF_vars(ProcNext)

----------------------------------------------------------------------------
(* Function-level runs: one function of the program applied to one input *)

\* How many whitespace characters may precede and follow a text.
MaxPad == 1

PadChars == {" ", "\n", "\t", "\r"}

RECURSIVE PadsOfLen(_)
PadsOfLen(n) ==
    IF n = 0 THEN {<<>>}
    ELSE {<<c>> \o s : c \in PadChars, s \in PadsOfLen(n - 1)}

\* The runs of whitespace of at most MaxPad characters.
Pads == UNION {PadsOfLen(n) : n \in 0..MaxPad}

(* Digit texts and other texts a port file may hold between its            *)
(* whitespace, each with the integer it denotes in decimal (0: none).      *)
PortBodies ==
    {[text |-> <<"3","0","1","0","0">>, value |-> 30100],
     [text |-> <<"1">>, value |-> MinPort],
     [text |-> Itoa(MaxPort), value |-> MaxPort],
     [text |-> <<"0","0","7">>, value |-> 7],
     [text |-> <<"0">>, value |-> 0],
     [text |-> Itoa(MaxPort + 1), value |-> MaxPort + 1],
     [text |-> <<"9","9","9","9","9","9","9","9","9">>, value |-> 999999999],
     [text |-> <<>>, value |-> 0],
     [text |-> <<"a","b","c">>, value |-> 0],
     [text |-> <<"3"," ","0">>, value |-> 0],
     [text |-> <<"1","2","a">>, value |-> 0],
     [text |-> <<"1",".","5">>, value |-> 0],
     [text |-> <<"0","x","1","0">>, value |-> 0],
     [text |-> <<"1","_","0">>, value |-> 0]}

Signs == {<<>>, <<"+">>, <<"-">>}

\* readPortFile on a file holding whitespace, a sign, a body, whitespace.
ReadPortFileCases ==
    {[fn |-> "readPortFile", in |-> FileWith(pre \o sg \o b.text \o suf),
      want |-> [sign |-> sg, value |-> b.value], out |-> <<>>, done |-> FALSE] :
        pre \in Pads, sg \in Signs, b \in PortBodies, suf \in Pads}
    \cup {[fn |-> "readPortFile", in |-> f, want |-> [sign |-> <<>>, value |-> 0],
           out |-> <<>>, done |-> FALSE] : f \in {NoFile, UnreadableFile}}

\* What the login endpoint may send between the whitespace of its body.
LoginCores ==
    {OkText, <<"o","k",".">>, <<"O","K",".">>, <<"O","k">>, <<"O","k",".","!">>,
     <<"O","k","."," ","O","k",".">>, FailsText, ForbiddenText, <<>>}

LoginStatuses == {StatusOK, 201, 204, 302, 401, StatusForbidden, 500}

\* Login on an answer (a status, a body of whitespace, a core, whitespace)
\* or on a transport error.
LoginCases ==
    {[fn |-> "Login", in |-> TextResponse(s, pre \o core \o suf),
      want |-> [status |-> s, core |-> core], out |-> <<>>, done |-> FALSE] :
        s \in LoginStatuses, pre \in Pads, core \in LoginCores, suf \in Pads}
    \cup {[fn |-> "Login", in |-> TextFailure(t), want |-> [status |-> 0, core |-> <<>>],
           out |-> <<>>, done |-> FALSE] : t \in TransportErrors}

FuncInit ==
    /\ pc = "function"
    /\ exitCode = 0
    /\ env = [QBITTORRENT_PASSWORD |-> SecretText, CHECK_INTERVAL |-> <<>>]
    /\ config = NoConfig
    /\ file = NoFile
    /\ remotePort = 6881
    /\ sessionValid = FALSE
    /\ lastPort = 0
    /\ filePort = 0
    /\ currentPort = 0
    /\ startLast = 0
    /\ calls = <<>>
    /\ outcome = "none"
    /\ hist = [initialLogin |-> "none", gatePassed |-> FALSE, cycleRan |-> FALSE,
               http |-> FALSE]
    /\ probe \in ReadPortFileCases \cup LoginCases

CallReadPortFile ==
    /\ probe.fn = "readPortFile"
    /\ ~probe.done
    /\ probe' = [probe EXCEPT !.out = readPortFile(probe.in), !.done = TRUE]
    /\ UNCHANGED progVars

CallLogin ==
    /\ probe.fn = "Login"
    /\ ~probe.done
    /\ probe' = [probe EXCEPT !.out = Login(probe.in), !.done = TRUE]
    /\ UNCHANGED progVars

FuncNext ==
    \/ CallReadPortFile
    \/ CallLogin

FuncSpec == FuncInit /\ [][FuncNext]_vars

----------------------------------------------------------------------------
(* Vocabulary of the properties *)

\* The positions of main inside the sync loop.
LoopPcs ==
    {"syncPort", "getPort", "loginGet", "retryGet", "setPort", "loginSet",
     "retrySet", "waitTick"}

\* No cycle is in progress: the last one has returned.
CycleOver == pc \in {"waitTick", "syncPort"}

\* The positions in the current cycle's calls of the calls to op.
CallsTo(op) == {i \in 1..Len(calls) : calls[i].op = op}

\* The Login calls made because the call before them, to op, failed.
LoginsAfter(op) == {i \in CallsTo("Login") : i > 1 /\ calls[i - 1].op = op}

\* Call i repeats an earlier call of the same cycle to the same method.
IsRetry(i) == \E j \in 1..(i - 1) : calls[j].op = calls[i].op

\* File states whose content is no port in [1,65535].
BadFiles == {NoFile, UnreadableFile} \cup {FileWith(t) : t \in MalformedTexts}

----------------------------------------------------------------------------
(* Properties *)

(* C1: idempotence.  A cycle that starts with Last-Known Port already set  *)
(* to p (by an earlier cycle) and reads p from the port file makes no HTTP *)
(* call at all and leaves Last-Known Port at p, whatever port the remote   *)
(* service has.                                                            *)
C1_Idempotent ==
    (outcome # "none" /\ startLast # 0 /\ filePort = startLast)
        => /\ calls = <<>>
           /\ outcome = "unchanged"
           /\ lastPort = startLast
           /\ CycleOver

\* C1's case: an unchanged-port cycle has run while the remote has drifted.
C1_Witness ==
    /\ pc = "waitTick"
    /\ outcome = "unchanged"
    /\ startLast # 0
    /\ calls = <<>>
    /\ remotePort # lastPort

(* C2: a cycle that aborts, at any of its return statements, leaves        *)
(* Last-Known Port equal to its value at the start of that cycle.          *)
C2_AbortKeepsLastPort ==
    outcome = "aborted" => lastPort = startLast /\ CycleOver

\* C2's case: a cycle aborted on the failed retry of SetPort, with a port
\* already known and a different one in the file.
C2_Witness ==
    /\ outcome = "aborted"
    /\ Len(calls) >= 3
    /\ calls[Len(calls)].op = "SetPort"
    /\ startLast # 0
    /\ filePort # startLast

(* C3: within one cycle each call site makes at most one Login and at most *)
(* one retry; a retried GetPort or SetPort that fails again (an expired    *)
(* session included) ends the cycle, with no further Login or retry.       *)
C3_OneReauthPerSite ==
    /\ \A op \in {"GetPort", "SetPort"} :
          /\ Cardinality(CallsTo(op)) <= 2
          /\ Cardinality(LoginsAfter(op)) <= 1
    /\ \A i \in 1..Len(calls) :
          (calls[i].op # "Login" /\ IsRetry(i) /\ ~calls[i].ok)
              => i = Len(calls) /\ outcome = "aborted" /\ CycleOver

\* C3's case: the retried GetPort was answered 403 again.
C3_Witness ==
    /\ Len(calls) = 3
    /\ calls[1].op = "GetPort" /\ calls[1].status = StatusForbidden
    /\ calls[2].op = "Login" /\ calls[2].ok
    /\ calls[3].op = "GetPort" /\ calls[3].status = StatusForbidden
    /\ outcome = "aborted"

(* C4: in the sync loop Login is called only after a 403 answer to GetPort *)
(* or SetPort; any other failure of GetPort or SetPort ends the cycle with *)
(* no Login, no retry and Last-Known Port unchanged.                       *)
C4_LoginOnlyAfter403 ==
    /\ \A i \in CallsTo("Login") : i > 1 /\ calls[i - 1].status = StatusForbidden
    /\ \A i \in 1..Len(calls) :
          (calls[i].op # "Login" /\ ~calls[i].ok /\ calls[i].status # StatusForbidden)
              => i = Len(calls) /\ outcome = "aborted" /\ lastPort = startLast

(* C5: when GetPort (the first, or the retry after re-authentication)      *)
(* returns the file's port, the cycle makes no SetPort call and            *)
(* Last-Known Port becomes that port.                                      *)
C5_AlreadyConfigured ==
    \A i \in CallsTo("GetPort") :
        (calls[i].ok /\ calls[i].ret = filePort)
            => /\ i = Len(calls)
               /\ CallsTo("SetPort") = {}
               /\ outcome = "alreadySet"
               /\ lastPort = filePort
               /\ CycleOver

\* C5's case: the retried GetPort returned the file's port, which was not
\* the Last-Known Port.
C5_Witness ==
    /\ Len(calls) = 3
    /\ calls[3].op = "GetPort" /\ calls[3].ok /\ calls[3].ret = filePort
    /\ filePort # startLast
    /\ pc = "waitTick"

(* C6: a cycle that finds the port file missing, unreadable, non-numeric   *)
(* or holding an integer outside [1,65535] makes no HTTP call, leaves      *)
(* Last-Known Port unchanged and goes back to waiting for the next tick.   *)
C6_BadFileAborts ==
    [][(pc = "syncPort" /\ pc' # "syncPort" /\ file \in BadFiles)
          => /\ pc' = "waitTick"
             /\ calls' = <<>>
             /\ outcome' = "aborted"
             /\ lastPort' = lastPort
             /\ hist'.http = hist.http]_vars

\* C6's case: a cycle has aborted on an out-of-range file with a port known.
C6_Witness ==
    /\ pc = "waitTick"
    /\ outcome = "aborted"
    /\ calls = <<>>
    /\ file = FileWith(Itoa(MaxPort + 1))
    /\ lastPort # 0

(* C7: when GetPort succeeds with a port other than the file's port p, the *)
(* next call is SetPort(p); when that succeeds too the cycle has made      *)
(* exactly these two calls, no Login, and Last-Known Port is p.            *)
C7_PlainUpdate ==
    (calls # <<>> /\ calls[1].ok /\ calls[1].ret # filePort)
        => \/ Len(calls) = 1 /\ pc = "setPort" /\ outcome = "running"
           \/ /\ Len(calls) >= 2
              /\ calls[1].op = "GetPort"
              /\ calls[2].op = "SetPort"
              /\ calls[2].arg = filePort
              /\ calls[2].ok => /\ Len(calls) = 2
                                /\ outcome = "updated"
                                /\ lastPort = filePort
                                /\ CycleOver

\* C7's case: the file's port differed from both the Last-Known Port and
\* the remote's, and GetPort and SetPort both succeeded at once.
C7_Witness ==
    /\ Len(calls) = 2
    /\ calls[1].ok /\ calls[1].ret # filePort
    /\ calls[2].ok /\ calls[2].arg = filePort
    /\ filePort # startLast
    /\ lastPort = filePort
    /\ pc = "waitTick"

(* C8: when the first SetPort(p) of a cycle is answered 403 the cycle      *)
(* calls Login; if Login succeeds it makes exactly one more SetPort, with  *)
(* the same p; if that retry succeeds Last-Known Port becomes p; if Login  *)
(* or the retry fails Last-Known Port is unchanged.                        *)
C8_SetPortReauth ==
    \A k \in CallsTo("SetPort") :
        (~IsRetry(k) /\ calls[k].status = StatusForbidden)
            => \/ Len(calls) = k /\ pc = "loginSet" /\ outcome = "running"
               \/ /\ Len(calls) > k
                  /\ calls[k + 1].op = "Login"
                  /\ IF ~calls[k + 1].ok
                     THEN Len(calls) = k + 1 /\ outcome = "aborted"
                          /\ lastPort = startLast
                     ELSE \/ Len(calls) = k + 1 /\ pc = "retrySet"
                             /\ outcome = "running"
                          \/ /\ Len(calls) = k + 2
                             /\ calls[k + 2].op = "SetPort"
                             /\ calls[k + 2].arg = calls[k].arg
                             /\ calls[k].arg = filePort
                             /\ CycleOver
                             /\ IF calls[k + 2].ok
                                THEN outcome = "updated" /\ lastPort = filePort
                                ELSE outcome = "aborted" /\ lastPort = startLast

\* C8's case: SetPort answered 403, Login succeeded, the retry succeeded.
C8_Witness ==
    /\ Len(calls) = 4
    /\ calls[2].op = "SetPort" /\ calls[2].status = StatusForbidden
    /\ calls[3].op = "Login" /\ calls[3].ok
    /\ calls[4].op = "SetPort" /\ calls[4].ok /\ calls[4].arg = filePort
    /\ startLast # filePort
    /\ lastPort = filePort

(* C9: startup is fail-fast.  Without a password the process exits with a  *)
(* non-zero status before any HTTP call; a failed client construction or   *)
(* initial Login exits it with a non-zero status; after any of these no    *)
(* cycle ever runs, so every call of a cycle comes after a successful      *)
(* initial Login.                                                          *)
C9_FailFastStartup ==
    /\ env.QBITTORRENT_PASSWORD = <<>>
          => pc \in {"loadConfig", "exited"} /\ ~hist.http
    /\ hist.initialLogin = "failed" => pc = "exited"
    /\ pc = "exited" => exitCode # 0
    /\ (pc = "exited" /\ exitCode = 1)
          => ~hist.cycleRan /\ ~hist.gatePassed /\ calls = <<>>
    /\ (hist.cycleRan \/ calls # <<>> \/ pc \in LoopPcs)
          => hist.initialLogin = "ok" /\ env.QBITTORRENT_PASSWORD # <<>>

\* C9's case: the process was started without a password and has exited.
C9_Witness ==
    /\ env.QBITTORRENT_PASSWORD = <<>>
    /\ pc = "exited"
    /\ exitCode = 1
    /\ ~hist.http

(* C10: the startup gate.  Once the existence poll has observed the port   *)
(* file, the process is about to run, or is running, the sync loop: the    *)
(* first cycle follows at once.                                            *)
C10_LoopStartsAfterGate ==
    hist.gatePassed => pc \in {"newTicker"} \cup LoopPcs

\* No cycle runs before the existence poll has observed the port file.
GateBeforeCycle ==
    (hist.cycleRan \/ pc \in LoopPcs) => hist.gatePassed

(* C11: once the sync loop has started, no outcome of a cycle ends the     *)
(* process or stops the loop: the process stays in the loop, a cycle that  *)
(* has returned leaves main waiting for the next tick, and a tick starts   *)
(* another cycle.                                                          *)
C11_LoopNeverStops ==
    hist.cycleRan
        => /\ pc \in LoopPcs
           /\ exitCode = 0
           /\ outcome \in {"running", "aborted", "unchanged", "alreadySet", "updated"}
           /\ outcome # "running" => CycleOver
           /\ pc = "waitTick" => ENABLED Tick

\* C11's case: a cycle aborted on a failed re-authentication and the next
\* tick has started another cycle.
C11_Witness ==
    /\ pc = "syncPort"
    /\ outcome = "aborted"
    /\ calls # <<>>
    /\ calls[Len(calls)].op = "Login"
    /\ ~calls[Len(calls)].ok

(* C12 (as claimed): readPortFile returns the integer, with no error, for  *)
(* every content that is unsigned decimal digits denoting a value in       *)
(* [1,65535] between optional whitespace, and an error for every other     *)
(* content, signed text included.                                          *)
C12_SignedIsError ==
    (probe.fn = "readPortFile" /\ probe.done)
        => IF /\ probe.in.exists /\ probe.in.readable
              /\ probe.want.sign = <<>>
              /\ probe.want.value \in MinPort..MaxPort
           THEN probe.out = [port |-> probe.want.value, err |-> Nil]
           ELSE probe.out.err.isErr /\ probe.out.port = 0

(* C12 (amended): as claimed, except that one leading "+" before the       *)
(* digits is accepted: "+30100" yields 30100 like "30100".  A leading "-"  *)
(* is always an error.                                                     *)
C12_ReadPortFile ==
    (probe.fn = "readPortFile" /\ probe.done)
        => IF /\ probe.in.exists /\ probe.in.readable
              /\ probe.want.sign # <<"-">>
              /\ probe.want.value \in MinPort..MaxPort
           THEN probe.out = [port |-> probe.want.value, err |-> Nil]
           ELSE probe.out.err.isErr /\ probe.out.port = 0

\* C12's case: a padded "+65535" has been read as 65535.
C12_Witness ==
    /\ probe.fn = "readPortFile"
    /\ probe.done
    /\ probe.in = FileWith(<<" ", "+">> \o Itoa(MaxPort) \o <<"\n">>)
    /\ probe.out = [port |-> MaxPort, err |-> Nil]

(* C13: Login returns nil if and only if the answer has status 200 and a   *)
(* body that is "Ok." between optional whitespace; every other status or   *)
(* body, and every transport error, is an error.                           *)
C13_LoginIffOk ==
    (probe.fn = "Login" /\ probe.done)
        => (probe.out = Nil
               <=> /\ ~probe.in.neterr
                   /\ probe.want.status = StatusOK
                   /\ probe.want.core = OkText)
           /\ (probe.out # Nil => probe.out.isErr)

\* C13's case: 200 with "Ok." between whitespace has been accepted.
C13_Witness ==
    /\ probe.fn = "Login"
    /\ probe.done
    /\ probe.in = TextResponse(StatusOK, <<"\n">> \o OkText \o <<" ">>)
    /\ probe.out = Nil

\* The calls of the current cycle went as well as the service's session
\* allows: each succeeded, or was a first GetPort or SetPort answered 403.
GoodCalls ==
    \A i \in 1..Len(calls) :
        \/ calls[i].ok
        \/ calls[i].op # "Login" /\ ~IsRetry(i) /\ calls[i].status = StatusForbidden

\* The loop runs and the port file holds port p.
FileHolds(p) == pc \in LoopPcs /\ file = FileWith(Itoa(p))

(* C14: convergence.  While the loop runs and the port file holds the     *)
(* same valid port p: from a state where Last-Known Port is not p, unless  *)
(* a call fails (other than a first GetPort or SetPort answered 403) or    *)
(* the file changes, the loop reaches a state where Last-Known Port is p   *)
(* and the remote is configured to p; and a cycle that aborted on the      *)
(* divergence to p is followed, unless the file changes, by a cycle that   *)
(* is about to issue GetPort for p again.                                  *)
C14_Convergence ==
    \A p \in Ports :
        /\ (FileHolds(p) /\ GoodCalls /\ lastPort # p)
               ~> \/ lastPort = p /\ remotePort = p
                  \/ ~(FileHolds(p) /\ GoodCalls)
        /\ (FileHolds(p) /\ outcome = "aborted" /\ filePort = p)
               ~> \/ pc = "getPort" /\ filePort = p /\ lastPort # p
                  \/ ~FileHolds(p)

\* C14's case: a port was known, the file then held another, the session
\* had expired, and the cycle re-authenticated and brought the remote to it.
C14_Witness ==
    /\ pc = "waitTick"
    /\ startLast # 0
    /\ filePort # startLast
    /\ Len(calls) = 4
    /\ GoodCalls
    /\ file = FileWith(Itoa(filePort))
    /\ lastPort = filePort
    /\ remotePort = filePort

\* The outcomes of a cycle that returned without aborting.
Completed == {"unchanged", "alreadySet", "updated"}

(* C15: Last-Known Port is 0 or a port in [1,65535]; after a cycle that    *)
(* completed without aborting it is the port that cycle read from the     *)
(* file, which is the number the file held when the cycle read it; it      *)
(* changes only at the end of such a cycle, so between them it keeps the   *)
(* value of the most recent one, is 0 only while no cycle has completed,   *)
(* and once non-zero never returns to 0.                                   *)
C15_LastKnownPort ==
    /\ [](lastPort = 0 \/ lastPort \in MinPort..MaxPort)
    /\ [](outcome \in Completed => lastPort = filePort /\ lastPort # 0)
    /\ [][/\ lastPort # 0 => lastPort' # 0
          /\ lastPort' # lastPort =>
                outcome' \in Completed /\ outcome # outcome' /\ lastPort' = filePort
          /\ (pc = "syncPort" /\ pc' # pc /\ outcome' # "aborted") =>
                /\ file.exists /\ file.readable
                /\ TrimSpace(file.data) = Itoa(filePort')
          /\ pc # "syncPort" => filePort' = filePort]_vars

\* C15's case: a port was known, the file held another one, and the cycle
\* that set the remote to it has stored it.
C15_Witness ==
    /\ outcome = "updated"
    /\ pc = "waitTick"
    /\ startLast # 0
    /\ lastPort # startLast
    /\ lastPort = filePort

(* C16: a cycle makes at most two GetPort, two SetPort and two Login       *)
(* calls, one Login per call site, six calls in all; every call moves the  *)
(* cycle to a later call or ends it, so each position of a cycle is        *)
(* reached after a fixed number of calls and none is reached twice.        *)
C16_BoundedCalls ==
    /\ \A op \in {"GetPort", "SetPort", "Login"} : Cardinality(CallsTo(op)) <= 2
    /\ \A op \in {"GetPort", "SetPort"} : Cardinality(LoginsAfter(op)) <= 1
    /\ Len(calls) <= 6
    /\ pc = "getPort" => Len(calls) = 0
    /\ pc = "loginGet" => Len(calls) = 1
    /\ pc = "retryGet" => Len(calls) = 2
    /\ pc = "setPort" => Len(calls) \in {1, 3}
    /\ pc = "loginSet" => Len(calls) \in {2, 4} /\ Cardinality(CallsTo("SetPort")) = 1
    /\ pc = "retrySet" => Len(calls) \in {3, 5} /\ Cardinality(CallsTo("SetPort")) = 1

\* C16's case: the longest cycle, with a re-authentication at both call
\* sites.
C16_Witness ==
    /\ Len(calls) = 6
    /\ Cardinality(CallsTo("Login")) = 2
    /\ CycleOver

\* The first call of the cycle to its method, at position i of the log.
IsFirstCall(i) == calls[i].op # "Login" /\ ~IsRetry(i)

\* The call at position i was followed by a Login, or one is about to be
\* made for it.
ReauthFollows(i) ==
    IF i < Len(calls) THEN calls[i + 1].op = "Login"
    ELSE pc = (IF calls[i].op = "GetPort" THEN "loginGet" ELSE "loginSet")

(* C17, as claimed: a first GetPort or SetPort answered 403 or 401 makes   *)
(* the cycle re-authenticate (and then retry).                             *)
C17_ExpiredOn403Or401 ==
    \A i \in 1..Len(calls) :
        (IsFirstCall(i) /\ calls[i].status \in {StatusForbidden, StatusUnauthorized})
            => ReauthFollows(i)

(* C17, amended: only a 403 answer is the authentication-expired           *)
(* condition: a first GetPort or SetPort answered 403 fails and makes the  *)
(* cycle re-authenticate.  A 401 answer is a failure of another kind: to   *)
(* GetPort it ends the cycle, aborted, with no Login and no retry; to      *)
(* SetPort it is a failed call.                                            *)
C17_ExpiredOn403Only ==
    \A i \in 1..Len(calls) :
        /\ (IsFirstCall(i) /\ calls[i].status = StatusForbidden)
              => ~calls[i].ok /\ ReauthFollows(i)
        /\ (calls[i].op = "GetPort" /\ calls[i].status = StatusUnauthorized)
              => /\ ~calls[i].ok
                 /\ i = Len(calls)
                 /\ outcome = "aborted"
                 /\ CycleOver
        /\ (calls[i].op = "SetPort" /\ calls[i].status = StatusUnauthorized)
              => ~calls[i].ok

\* C17's case: the first GetPort was answered 403 and the cycle logged in
\* again; the retried GetPort was answered 401 and the cycle ended there.
C17_Witness ==
    /\ Len(calls) = 3
    /\ calls[1].op = "GetPort" /\ calls[1].status = StatusForbidden
    /\ calls[2].op = "Login" /\ calls[2].ok
    /\ calls[3].op = "GetPort" /\ calls[3].status = StatusUnauthorized
    /\ outcome = "aborted"

\* The call at position i is the cycle's last call, so far, to its method.
IsLastCallTo(i) == \A j \in (i + 1)..Len(calls) : calls[j].op # calls[i].op

\* The remote acknowledged port p at position i of the cycle's calls: a
\* GetPort returned p, or a SetPort carrying p succeeded.
Acknowledged(i, p) ==
    /\ calls[i].ok
    /\ \/ calls[i].op = "GetPort" /\ calls[i].ret = p
       \/ calls[i].op = "SetPort" /\ calls[i].arg = p

(* C18: when a cycle has changed Last-Known Port, to p, the remote         *)
(* acknowledged p in that cycle; while the cycle's last GetPort or its     *)
(* last SetPort is a failed one, Last-Known Port is what it was at the     *)
(* start of the cycle.                                                     *)
C18_ChangeOnlyOnAck ==
    /\ lastPort # startLast => \E i \in 1..Len(calls) : Acknowledged(i, lastPort)
    /\ \A i \in CallsTo("GetPort") \cup CallsTo("SetPort") :
          (IsLastCallTo(i) /\ ~calls[i].ok) => lastPort = startLast

\* C18's case: a port was known, the file held another one, and GetPort
\* answered that the remote already listens on it.
C18_Witness ==
    /\ outcome = "alreadySet"
    /\ startLast # 0
    /\ lastPort # startLast
    /\ calls[Len(calls)].op = "GetPort"
    /\ calls[Len(calls)].ret = lastPort

(* C19: every SetPort call of a cycle carries the port the cycle read from *)
(* the file, a port in [1,65535], and comes after a GetPort of the same    *)
(* cycle that succeeded and returned another port; the cycle's port is the *)
(* number the file held when the cycle read it and stays the same for the  *)
(* whole cycle.                                                            *)
C19_SetPortArgument ==
    /\ [](\A i \in CallsTo("SetPort") :
             /\ calls[i].arg = filePort
             /\ calls[i].arg \in MinPort..MaxPort
             /\ \E j \in 1..(i - 1) :
                   /\ calls[j].op = "GetPort"
                   /\ calls[j].ok
                   /\ calls[j].ret # calls[i].arg
                   /\ \A k \in (j + 1)..(i - 1) : calls[k].op # "GetPort")
    /\ [][/\ (pc = "syncPort" /\ pc' = "getPort") =>
                /\ file.exists /\ file.readable
                /\ Atoi(TrimSpace(file.data)) = [ok |-> TRUE, n |-> filePort']
          /\ pc \in {"getPort", "loginGet", "retryGet", "setPort", "loginSet", "retrySet"}
                => filePort' = filePort]_vars

\* C19's case: a port was known, the file holds another, and SetPort is
\* called a second time, after a re-authentication, with the file's port.
C19_Witness ==
    /\ Cardinality(CallsTo("SetPort")) = 2
    /\ calls[Len(calls)].arg = filePort
    /\ startLast # 0
    /\ startLast # filePort
    /\ remotePort = filePort

(* C20: whatever the poll-interval setting, the interval of the loaded     *)
(* configuration, which main hands to the ticker, is positive (the default *)
(* when the setting is absent), and creating the ticker never ends the     *)
(* process.                                                                *)
C20_IntervalPositive ==
    /\ config # NoConfig =>
          /\ config.CheckInterval > 0
          /\ env.CHECK_INTERVAL = <<>> => config.CheckInterval = DefaultCheckInterval
    /\ exitCode # 2

====
